---------------------------- MODULE Spec2Model ----------------------------
(***************************************************************************)
(* The pybind11 type casters of PyDIP (src/pydip/src/pydip.h) as a state   *)
(* machine: one caster object alive at a time, its held `value`, the       *)
(* Python object handed to `load`, and how the call ended.                 *)
(*                                                                         *)
(* Python objects are records [t, v, w, s, buf, items]:                    *)
(*   t      dynamic type ("null" is the null handle, not a Python object)  *)
(*   v, w   numeric payload (w: imaginary part of a complex)               *)
(*   s      text of a str / bytes                                          *)
(*   buf    the object exports the buffer protocol                         *)
(*   items  elements of a list / tuple, components of a slice              *)
(* C++ values are records tagged by field k.                               *)
(***************************************************************************)
EXTENDS Integers, Sequences, FiniteSets, TLC

VARIABLES kind,   \* type of the live caster ("none": no caster alive)
          phase,  \* "fresh" | "loaded" | "reloaded" | "done"
          value,  \* the caster's `value` member (or ImageOrPixel's result)
          prev,   \* `value` as it was when the last call started
          op,     \* last operation: "none" | "construct" | "load" | "cast" | "resolve"
          src,    \* Python object given to the last load / ImageOrPixel
          res,    \* how the last call ended
          pyerr,  \* a Python error indicator is left pending by the last call
          out,    \* Python object produced by the last cast
          tried   \* casters consulted by the last ImageOrPixel call, in order

vars == <<kind, phase, value, prev, op, src, res, pyerr, out, tried>>

---------------------------------------------------------------------------
(* Bounds of the model *)

\* Width in bits of dip::sint / dip::uint (64 in the build), scaled down.
SintBits == 4

\* Longest Python list / tuple given to a caster.
MaxLen == 3

MinSint == 0 - 2^(SintBits - 1)
MaxSint == 2^(SintBits - 1) - 1
UintMod == 2^SintBits

FitsSint(n) == MinSint <= n /\ n <= MaxSint

---------------------------------------------------------------------------
(* Python objects *)

PyObj(t, v, w, s, b, items) ==
    [t |-> t, v |-> v, w |-> w, s |-> s, buf |-> b, items |-> items]

PyNull           == PyObj("null", 0, 0, "", FALSE, <<>>)
PyNone           == PyObj("None", 0, 0, "", FALSE, <<>>)
PyBool(b)        == PyObj("bool", IF b THEN 1 ELSE 0, 0, "", FALSE, <<>>)
PyInt(n)         == PyObj("int", n, 0, "", FALSE, <<>>)
PyFloat(x)       == PyObj("float", x, 0, "", FALSE, <<>>)
PyComplex(re,im) == PyObj("complex", re, im, "", FALSE, <<>>)
PyStr(s)         == PyObj("str", 0, 0, s, FALSE, <<>>)
PyBytes(s)       == PyObj("bytes", 0, 0, s, FALSE, <<>>)
PyList(items)    == PyObj("list", 0, 0, "", FALSE, items)
PyTuple(items)   == PyObj("tuple", 0, 0, "", FALSE, items)
PySlice(a, b, c) == PyObj("slice", 0, 0, "", FALSE, <<a, b, c>>)
\* a numpy array: exports a buffer, is no scalar and no list
PyBuffer         == PyObj("buffer", 0, 0, "", TRUE, <<>>)
\* a numpy.float64 scalar: a subclass of float that also exports a buffer
NpFloat(x)       == PyObj("float", x, 0, "", TRUE, <<>>)

\* Python integers are unbounded: the model keeps every value dip::sint holds
\* and one value beyond each end.
PyInts == (MinSint - 1)..(MaxSint + 1)
BigInt == MaxSint + 1

\* A str as a sequence: its items are its one-character strings (which
\* character plays no role in any conversion below).
StrLen(s) ==
    CASE s = ""              -> 0
      [] s = "x"             -> 1
      [] s = "BIN"           -> 3
      [] s = "DFLOAT"        -> 6
      [] s = "row vector"    -> 10
      [] s = "column vector" -> 13

SeqItems(o) ==
    IF o.t = "str" THEN [i \in 1..StrLen(o.s) |-> PyStr("x")] ELSE o.items

\* Scalars handed to the casters.
Scalars ==
    {PyNull, PyNone, PyBool(TRUE), PyBool(FALSE)}
      \cup {PyInt(n) : n \in PyInts}
      \cup {PyFloat(1), PyFloat(-2), NpFloat(3)}
      \cup {PyComplex(0, 1), PyComplex(2, -1)}
      \cup {PyStr("x"), PyStr(""), PyBytes("x"), PyBuffer}
      \cup {PyStr("DFLOAT"), PyBytes("BIN"), PyStr("row vector"), PyStr("column vector")}

\* Elements of the lists handed to the Pixel caster and to ImageOrPixel.
PixelElems ==
    {PyBool(TRUE), PyInt(1), PyInt(2), PyFloat(1), PyComplex(0, 1), PyStr("x")}

\* Elements of the lists and tuples handed to the array caster.
ArrayElems ==
    {PyInt(1), PyInt(2), PyInt(BigInt), PyFloat(1), PyStr("x")}

RECURSIVE SeqsUpTo(_, _)
SeqsUpTo(S, n) ==
    IF n = 0 THEN {<<>>}
    ELSE LET shorter == SeqsUpTo(S, n - 1)
         IN  shorter \cup {Append(q, e) : q \in {r \in shorter : Len(r) = n - 1}, e \in S}

\* every list over PixelElems, and two holding an integer dip::sint cannot hold
PixelLists ==
    {PyList(q) : q \in SeqsUpTo(PixelElems, MaxLen)}
      \cup {PyList(<<PyInt(BigInt)>>), PyList(<<PyInt(1), PyInt(BigInt)>>)}
ArrayLists  == {PyList(q)  : q \in SeqsUpTo(ArrayElems, MaxLen)}
ArrayTuples == {PyTuple(q) : q \in SeqsUpTo(ArrayElems, MaxLen)}

\* Components of a slice: unset, an integer, or something else.
StepComps  == {PyNone, PyStr("x")} \cup {PyInt(n) : n \in PyInts}
StartComps == {PyNone, PyFloat(1), PyInt(2), PyInt(BigInt)}
StopComps  == {PyNone, PyFloat(1), PyInt(5), PyInt(MinSint - 1)}
Slices == {PySlice(a, b, c) : a \in StartComps, b \in StopComps, c \in StepComps}

---------------------------------------------------------------------------
(* C++ values *)

NoValue == [k |-> "none"]

Array(elems)      == [k |-> "array", elems |-> elems]
DataType(i)       == [k |-> "datatype", dt |-> i]
Shape(i)          == [k |-> "shape", sh |-> i]
Range(a, b, s)    == [k |-> "range", start |-> a, stop |-> b, step |-> s]
Sample(dt, re, im) == [k |-> "sample", dt |-> dt, re |-> re, im |-> im]
\* dip::Image::Pixel: one data type, a buffer of samples
Pixel(dt, buffer) == [k |-> "pixel", dt |-> dt, buffer |-> buffer]
Image(origin, px) == [k |-> "image", origin |-> origin, px |-> px]

\* how a call ended, the caster's value after it, whether a Python error is pending
Outcome(r, v, e) == [res |-> r, value |-> v, pyerr |-> e]

Conv(ok, re, im) == [ok |-> ok, re |-> re, im |-> im]
NoConv == Conv(FALSE, 0, 0)

---------------------------------------------------------------------------
(* CPython and pybind11 primitives the casters call *)

PyLongCheck(o)  == o.t \in {"int", "bool"}     \* bool is a subclass of int
PyBoolCheck(o)  == o.t = "bool"
PyFloatCheck(o) == o.t = "float"
PyComplexCheck(o) == o.t = "complex"
PyNoneCheck(o)  == o.t = "None"
PySliceCheck(o) == o.t = "slice"
PyListCheck(o)  == o.t = "list"
IsSequence(o)   == o.t \in {"list", "tuple", "str", "bytes"}
IsText(o)       == o.t \in {"str", "bytes"}

\* PyLong_AsSsize_t: -1 with OverflowError pending when the value does not fit
PyLongAsSsize(o) ==
    IF FitsSint(o.v) THEN [v |-> o.v, err |-> FALSE] ELSE [v |-> -1, err |-> TRUE]

\* handle::cast<T>() converts with T's caster and throws cast_error when the
\* caster refuses; the operators below give the caster's answer.
ToBool(o) ==
    CASE o.t = "bool" -> Conv(TRUE, o.v, 0)
      [] o.t = "None" -> Conv(TRUE, 0, 0)
      [] o.t \in {"int", "float", "complex"} ->
            Conv(TRUE, IF o.v # 0 \/ o.w # 0 THEN 1 ELSE 0, 0)
      [] OTHER -> NoConv

ToSint(o) ==
    IF PyLongCheck(o) /\ FitsSint(o.v) THEN Conv(TRUE, o.v, 0) ELSE NoConv

ToDfloat(o) ==
    IF o.t \in {"float", "int", "bool"} THEN Conv(TRUE, o.v, 0) ELSE NoConv

ToDcomplex(o) ==
    CASE o.t = "complex" -> Conv(TRUE, o.v, o.w)
      [] o.t \in {"float", "int", "bool"} -> Conv(TRUE, o.v, 0)
      [] OTHER -> NoConv

ConvertTo(dt, o) ==
    CASE dt = "BIN"      -> ToBool(o)
      [] dt = "SINT64"   -> ToSint(o)
      [] dt = "DFLOAT"   -> ToDfloat(o)
      [] dt = "DCOMPLEX" -> ToDcomplex(o)

---------------------------------------------------------------------------
(* type_caster< dip::Range > *)

\* static_cast between dip::sint and dip::uint
ToUint(n)     == n % UintMod
UintToSint(u) == IF u > MaxSint THEN u - UintMod ELSE u

\* `step = -step` on a negative step.  At the most negative value the negation
\* overflows a signed integer, which is undefined: the build either wraps
\* around to the same value or traps.
NegateStep(step) ==
    IF step # MinSint
    THEN {[trap |-> FALSE, v |-> 0 - step]}
    ELSE {[trap |-> FALSE, v |-> MinSint], [trap |-> TRUE, v |-> 0]}

\* One component of the slice: "is it usable" and the value read from it.
CompOk(c)      == PyNoneCheck(c) \/ PyLongCheck(c)
CompErr(c)     == PyLongCheck(c) /\ PyLongAsSsize(c).err
CompVal(c, unset) == IF PyNoneCheck(c) THEN unset ELSE PyLongAsSsize(c).v

RangeLoadSlice(val, o) ==
    LET cstart == o.items[1]
        cstop  == o.items[2]
        cstep  == o.items[3]
        step   == CompVal(cstep, 1)
        start  == CompVal(cstart, IF step < 0 THEN -1 ELSE 0)
        stop   == CompVal(cstop, IF step < 0 THEN 0 ELSE -1)
        err    == CompErr(cstep) \/ CompErr(cstart) \/ CompErr(cstop)
    IN  IF ~CompOk(cstep) THEN {Outcome("false", val, FALSE)}
        ELSE IF ~CompOk(cstart) THEN {Outcome("false", val, CompErr(cstep))}
        ELSE IF ~CompOk(cstop)
             THEN {Outcome("false", val, CompErr(cstep) \/ CompErr(cstart))}
        ELSE IF step < 0
             THEN {IF n.trap THEN Outcome("abort", val, err)
                   ELSE Outcome("true", Range(start, stop, ToUint(n.v)), err)
                     : n \in NegateStep(step)}
        ELSE {Outcome("true", Range(start, stop, ToUint(step)), err)}

RangeLoad(val, o) ==
    IF o.t = "null" THEN {Outcome("false", val, FALSE)}
    ELSE IF PySliceCheck(o) THEN RangeLoadSlice(val, o)
    ELSE IF PyLongCheck(o)
         THEN IF ToSint(o).ok
              THEN {Outcome("true", Range(o.v, o.v, 1), FALSE)}
              ELSE {Outcome("cast_error", val, FALSE)}
    ELSE {Outcome("false", val, FALSE)}

RangeCast(r) == PySlice(PyInt(r.start), PyInt(r.stop), PyInt(UintToSint(r.step)))

---------------------------------------------------------------------------
(* type_caster< dip::Image::Sample > *)

\* Sample( src.cast< T >() ): the data type is the one of T
SampleOf(dt, o, val) ==
    LET c == ConvertTo(dt, o)
    IN  IF c.ok THEN Outcome("true", Sample(dt, c.re, c.im), FALSE)
        ELSE Outcome("cast_error", val, FALSE)

SampleLoad(val, o) ==
    IF o.t = "null" THEN Outcome("false", val, FALSE)
    ELSE IF PyBoolCheck(o) THEN SampleOf("BIN", o, val)
    ELSE IF PyLongCheck(o) THEN SampleOf("SINT64", o, val)
    ELSE IF PyFloatCheck(o) THEN SampleOf("DFLOAT", o, val)
    ELSE IF PyComplexCheck(o) THEN SampleOf("DCOMPLEX", o, val)
    ELSE Outcome("false", val, FALSE)

IsBinary(dt)  == dt = "BIN"
IsComplex(dt) == dt = "DCOMPLEX"
IsFloat(dt)   == dt \in {"SFLOAT", "DFLOAT"}

\* mutant: the binary branch left out, a binary sample leaves as an integer
SampleCastNoBinary(s) ==
    IF IsComplex(s.dt) THEN PyComplex(s.re, s.im)
    ELSE IF IsFloat(s.dt) THEN PyFloat(s.re)
    ELSE PyInt(s.re)

\* py::cast of static_cast< T >( sample ), T picked by the sample's data type
SampleCast(s) ==
    IF IsBinary(s.dt) THEN PyBool(s.re # 0 \/ s.im # 0)
    ELSE IF IsComplex(s.dt) THEN PyComplex(s.re, s.im)
    ELSE IF IsFloat(s.dt) THEN PyFloat(s.re)
    ELSE PyInt(s.re)

---------------------------------------------------------------------------
(* type_caster< dip::Image::Pixel > *)

SetMin(S) == CHOOSE m \in S : \A x \in S : m <= x

\* mutant: an element the caster refuses is skipped and the load goes on
PixelFillSkipBad(dt, items) ==
    LET n == Len(items)
        buffer == [i \in 1..n |->
                     IF ConvertTo(dt, items[i]).ok
                     THEN [re |-> ConvertTo(dt, items[i]).re,
                           im |-> ConvertTo(dt, items[i]).im]
                     ELSE [re |-> 0, im |-> 0]]
    IN  Outcome("true", Pixel(dt, buffer), FALSE)

\* value.swap( Pixel( dt, n )) gives n zeroed samples; the loop then assigns
\* in.cast< T >() to one sample after the other and is left by the cast_error
\* of the first element T's caster refuses.
PixelFill(dt, items) ==
    LET n     == Len(items)
        bad   == {i \in 1..n : ~ConvertTo(dt, items[i]).ok}
        upto  == IF bad = {} THEN n + 1 ELSE SetMin(bad)
        buffer == [i \in 1..n |->
                     IF i < upto
                     THEN [re |-> ConvertTo(dt, items[i]).re,
                           im |-> ConvertTo(dt, items[i]).im]
                     ELSE [re |-> 0, im |-> 0]]
    IN  Outcome(IF bad = {} THEN "true" ELSE "cast_error", Pixel(dt, buffer), FALSE)

\* mutant: no check for the empty list, whose element 0 is then asked for
PixelLoadListNoEmptyCheck(val, o) ==
    LET n == Len(o.items)
    IN  IF n = 0 THEN Outcome("error_already_set", val, TRUE)
        ELSE IF PyBoolCheck(o.items[1]) THEN PixelFill("BIN", o.items)
        ELSE IF PyLongCheck(o.items[1]) THEN PixelFill("SINT64", o.items)
        ELSE IF PyFloatCheck(o.items[1]) THEN PixelFill("DFLOAT", o.items)
        ELSE IF PyComplexCheck(o.items[1]) THEN PixelFill("DCOMPLEX", o.items)
        ELSE Outcome("false", val, FALSE)

\* mutant: the new Pixel swapped in before the type of element 0 is looked at
PixelLoadListSwapFirst(val, o) ==
    LET n == Len(o.items)
        zeroed == Pixel("SFLOAT", [i \in 1..n |-> [re |-> 0, im |-> 0]])
    IN  IF n = 0 THEN Outcome("false", val, FALSE)
        ELSE IF PyBoolCheck(o.items[1]) THEN PixelFill("BIN", o.items)
        ELSE IF PyLongCheck(o.items[1]) THEN PixelFill("SINT64", o.items)
        ELSE IF PyFloatCheck(o.items[1]) THEN PixelFill("DFLOAT", o.items)
        ELSE IF PyComplexCheck(o.items[1]) THEN PixelFill("DCOMPLEX", o.items)
        ELSE Outcome("false", zeroed, FALSE)

PixelLoadList(val, o) ==
    LET n == Len(o.items)
    IN  IF n = 0 THEN Outcome("false", val, FALSE)
        ELSE IF PyBoolCheck(o.items[1]) THEN PixelFill("BIN", o.items)
        ELSE IF PyLongCheck(o.items[1]) THEN PixelFill("SINT64", o.items)
        ELSE IF PyFloatCheck(o.items[1]) THEN PixelFill("DFLOAT", o.items)
        ELSE IF PyComplexCheck(o.items[1]) THEN PixelFill("DCOMPLEX", o.items)
        ELSE Outcome("false", val, FALSE)

\* the non-list branch: a local Sample caster, whose Sample becomes the Pixel
PixelLoadScalar(val, o) ==
    LET conv == SampleLoad(Sample("SFLOAT", 0, 0), o)
    IN  IF conv.res = "true"
        THEN Outcome("true",
                     Pixel(conv.value.dt, <<[re |-> conv.value.re, im |-> conv.value.im]>>),
                     FALSE)
        ELSE Outcome(conv.res, val, conv.pyerr)

PixelLoad(val, o) ==
    IF o.t = "null" THEN Outcome("false", val, FALSE)
    ELSE IF PyListCheck(o) THEN PixelLoadList(val, o)
    ELSE PixelLoadScalar(val, o)

PixelCast(p) ==
    LET n == Len(p.buffer)
    IN  IF IsBinary(p.dt)
        THEN PyList([i \in 1..n |-> PyBool(p.buffer[i].re # 0 \/ p.buffer[i].im # 0)])
        ELSE IF IsComplex(p.dt)
        THEN PyList([i \in 1..n |-> PyComplex(p.buffer[i].re, p.buffer[i].im)])
        ELSE IF IsFloat(p.dt)
        THEN PyList([i \in 1..n |-> PyFloat(p.buffer[i].re)])
        ELSE PyList([i \in 1..n |-> PyInt(p.buffer[i].re)])

---------------------------------------------------------------------------
(* type_caster< dip::DimensionArray< Type >>, Type = dip::sint *)

\* list_caster::load of pybind11: element by element with Type's caster, in
\* order.  What it leaves in `value` when an element is refused is not fixed
\* by the specification: the value as it was, or the elements converted so far.
ListCasterLoad(val, o) ==
    LET items == SeqItems(o)
        n     == Len(items)
        bad   == {i \in 1..n : ~ToSint(items[i]).ok}
    IN  IF bad = {}
        THEN {Outcome("true", Array([i \in 1..n |-> ToSint(items[i]).re]), FALSE)}
        ELSE {Outcome("false", val, FALSE),
              Outcome("false",
                      Array([i \in 1..(SetMin(bad) - 1) |-> ToSint(items[i]).re]),
                      FALSE)}

\* mutant: value.clear() left out, the scalar is appended to what was held
ScalarAsArrayNoClear(val, o) ==
    LET conv == ToSint(o)
    IN  IF ~conv.ok THEN {Outcome("false", val, FALSE)}
        ELSE {Outcome("true", Array(Append(val.elems, conv.re)), FALSE)}

\* value.clear(); value_conv conv; conv.load(); value.push_back()
ScalarAsArray(val, o) ==
    LET cleared == Array(<<>>)
        conv    == ToSint(o)
    IN  IF ~conv.ok THEN {Outcome("false", cleared, FALSE)}
        ELSE {Outcome("true", Array(Append(cleared.elems, conv.re)), FALSE)}

ArrayLoad(val, o) ==
    IF IsSequence(o) THEN ListCasterLoad(val, o) ELSE ScalarAsArray(val, o)

---------------------------------------------------------------------------
(* type_caster< dip::DataType >, type_caster< dip::Tensor::Shape > *)

DataTypeNames == <<"BIN", "SINT64", "SFLOAT", "DFLOAT", "DCOMPLEX">>
ShapeNames    == <<"column vector", "row vector">>

\* the enum parsers of the library: the member with that exact name, or a
\* dip error thrown
Lookup(names, s) ==
    IF \E i \in 1..Len(names) : names[i] = s
    THEN CHOOSE i \in 1..Len(names) : names[i] = s
    ELSE 0

DataTypeLoad(val, o) ==
    IF o.t = "null" THEN Outcome("false", val, FALSE)
    ELSE IF IsText(o)
         THEN IF Lookup(DataTypeNames, o.s) # 0
              THEN Outcome("true", DataType(Lookup(DataTypeNames, o.s)), FALSE)
              ELSE Outcome("dip_error", val, FALSE)
    ELSE Outcome("false", val, FALSE)

ShapeLoad(val, o) ==
    IF o.t = "null" THEN Outcome("false", val, FALSE)
    ELSE IF IsText(o)
         THEN IF Lookup(ShapeNames, o.s) # 0
              THEN Outcome("true", Shape(Lookup(ShapeNames, o.s)), FALSE)
              ELSE Outcome("dip_error", val, FALSE)
    ELSE Outcome("false", val, FALSE)

DataTypeCast(d) == PyStr(DataTypeNames[d.dt])
ShapeCast(s)    == PyStr(ShapeNames[s.sh])

---------------------------------------------------------------------------
(* ImageOrPixel *)

\* the Image caster of the bindings: takes objects exporting a buffer
ImageCasterLoad(o) == o.buf

\* the value a caster holds when it is constructed
FreshValues(k) ==
    CASE k = "Array"    -> {Array(<<>>)}
      [] k = "DataType" -> {DataType(Lookup(DataTypeNames, "SFLOAT"))}
      [] k = "Shape"    -> {Shape(i) : i \in 1..Len(ShapeNames)}
      [] k = "Range"    -> {Range(0, -1, 1)}
      [] k = "Sample"   -> {Sample("SFLOAT", 0, 0)}
      [] k = "Pixel"    -> {Pixel("SFLOAT", <<[re |-> 0, im |-> 0]>>)}

FreshPixel == CHOOSE v \in FreshValues("Pixel") : TRUE

Resolved(r, img, consulted) == [res |-> r, value |-> img, tried |-> consulted]

\* mutant: the Pixel caster asked first, the Image caster second
ImageOrPixelPixelFirst(o) ==
    LET pix == PixelLoad(FreshPixel, o)
    IN  IF pix.res = "true"
        THEN Resolved("returned", Image("pixel", pix.value), <<"Pixel">>)
        ELSE IF pix.res # "false"
        THEN Resolved(pix.res, NoValue, <<"Pixel">>)
        ELSE IF ImageCasterLoad(o)
        THEN Resolved("returned", Image("caster", NoValue), <<"Pixel", "Image">>)
        ELSE Resolved("RunTimeError", NoValue, <<"Pixel", "Image">>)

ImageOrPixel(o) ==
    IF ImageCasterLoad(o)
    THEN Resolved("returned", Image("caster", NoValue), <<"Image">>)
    ELSE LET pix == PixelLoad(FreshPixel, o)
         IN  IF pix.res = "true"
             THEN Resolved("returned", Image("pixel", pix.value), <<"Image", "Pixel">>)
             ELSE IF pix.res = "false"
             THEN Resolved("RunTimeError", NoValue, <<"Image", "Pixel">>)
             ELSE Resolved(pix.res, NoValue, <<"Image", "Pixel">>)

---------------------------------------------------------------------------
(* The inputs of each operation *)

PlainScalars == {o \in Scalars : o.t \notin {"null", "bytes", "buffer", "str"}}

ArrayInputs  == ArrayLists \cup ArrayTuples \cup {PyStr(""), PyStr("x")} \cup PlainScalars
EnumInputs   == Scalars \cup {PyList(<<>>)}
RangeInputs  == Slices \cup Scalars
SampleInputs == Scalars \cup {PyList(<<>>), PyList(<<PyInt(1)>>), PyTuple(<<PyInt(1)>>)}
PixelInputs  == PixelLists \cup Scalars \cup {PyTuple(<<PyInt(1)>>)}
ImageInputs  == PixelLists \cup Scalars \cup {PyTuple(<<PyInt(1)>>)}

Kinds == {"Array", "DataType", "Shape", "Range", "Sample", "Pixel"}

---------------------------------------------------------------------------
(* The state machine *)

Init ==
    /\ kind = "none"
    /\ phase = "none"
    /\ value = NoValue
    /\ prev = NoValue
    /\ op = "none"
    /\ src = PyNull
    /\ res = "none"
    /\ pyerr = FALSE
    /\ out = PyNull
    /\ tried = <<>>

\* a caster object is default-constructed for one conversion
Construct ==
    /\ kind = "none"
    /\ \E k \in Kinds :
         /\ kind' = k
         /\ \E v \in FreshValues(k) : value' = v /\ prev' = v
    /\ phase' = "fresh"
    /\ op' = "construct"
    /\ src' = PyNull
    /\ res' = "none"
    /\ pyerr' = FALSE
    /\ out' = PyNull
    /\ tried' = <<>>

\* the caster goes out of scope
Release ==
    /\ kind # "none"
    /\ phase # "dead"
    /\ kind' = "none"
    /\ phase' = "none"
    /\ value' = NoValue
    /\ prev' = NoValue
    /\ op' = "none"
    /\ src' = PyNull
    /\ res' = "none"
    /\ pyerr' = FALSE
    /\ out' = PyNull
    /\ tried' = <<>>

\* A caster is loaded when fresh and may be loaded once more: load never
\* reads the value it replaces, so one reload shows every pair of held value
\* and input.
CanLoad(k) == kind = k /\ phase \in {"fresh", "loaded"}

\* the object the last cast produced can be handed back to load
Produced == IF out = PyNull THEN {} ELSE {out}

\* load( o ) on the live caster ended as r
Loaded(o, r) ==
    /\ phase' = IF r.res = "abort" THEN "dead"
                ELSE IF phase = "fresh" THEN "loaded" ELSE "reloaded"
    /\ prev' = value
    /\ value' = r.value
    /\ op' = "load"
    /\ src' = o
    /\ res' = r.res
    /\ pyerr' = r.pyerr
    /\ UNCHANGED <<kind, out, tried>>

ArrayCasterLoad ==
    /\ CanLoad("Array")
    /\ \E o \in ArrayInputs : \E r \in ArrayLoad(value, o) : Loaded(o, r)

DataTypeCasterLoad ==
    /\ CanLoad("DataType")
    /\ \E o \in EnumInputs \cup Produced : Loaded(o, DataTypeLoad(value, o))

ShapeCasterLoad ==
    /\ CanLoad("Shape")
    /\ \E o \in EnumInputs \cup Produced : Loaded(o, ShapeLoad(value, o))

RangeCasterLoad ==
    /\ CanLoad("Range")
    /\ \E o \in RangeInputs \cup Produced : \E r \in RangeLoad(value, o) : Loaded(o, r)

SampleCasterLoad ==
    /\ CanLoad("Sample")
    /\ \E o \in SampleInputs \cup Produced : Loaded(o, SampleLoad(value, o))

PixelCasterLoad ==
    /\ CanLoad("Pixel")
    /\ \E o \in PixelInputs \cup Produced : Loaded(o, PixelLoad(value, o))

\* cast( value ) of the value the caster was loaded with
Casted(o) ==
    /\ op = "load"
    /\ res = "true"
    /\ out' = o
    /\ op' = "cast"
    /\ UNCHANGED <<kind, phase, value, prev, src, res, pyerr, tried>>

DataTypeCasterCast == kind = "DataType" /\ Casted(DataTypeCast(value))
ShapeCasterCast    == kind = "Shape" /\ Casted(ShapeCast(value))
RangeCasterCast    == kind = "Range" /\ Casted(RangeCast(value))
SampleCasterCast   == kind = "Sample" /\ Casted(SampleCast(value))
PixelCasterCast    == kind = "Pixel" /\ Casted(PixelCast(value))

ImageOrPixelCall ==
    /\ kind = "none"
    /\ \E o \in ImageInputs :
         LET r == ImageOrPixel(o)
         IN  /\ src' = o
             /\ res' = r.res
             /\ value' = r.value
             /\ tried' = r.tried
    /\ kind' = "ImageOrPixel"
    /\ phase' = "done"
    /\ prev' = NoValue
    /\ op' = "resolve"
    /\ pyerr' = FALSE
    /\ out' = PyNull

Next ==
    \/ Construct
    \/ Release
    \/ ArrayCasterLoad
    \/ DataTypeCasterLoad
    \/ ShapeCasterLoad
    \/ RangeCasterLoad
    \/ SampleCasterLoad
    \/ PixelCasterLoad
    \/ DataTypeCasterCast
    \/ ShapeCasterCast
    \/ RangeCasterCast
    \/ SampleCasterCast
    \/ PixelCasterCast
    \/ ImageOrPixelCall

Spec == Init /\ [][Next]_vars

---------------------------------------------------------------------------
(* The claims *)

\* a load of the caster of type k has been made (and perhaps a cast after it)
LoadDone(k) == kind = k /\ op \in {"load", "cast"}

Abs(n) == IF n < 0 THEN 0 - n ELSE n

\* a slice component that is unset or a Python integer
UnsetOrInt(c) == c.t \in {"None", "int"}

\* C1: RangeCaster.load on a slice whose components are each unset or an
\* integer returns success with step = 1 if the step is unset and |step|
\* otherwise, start = the given start, or -1 (negative step) / 0 when unset,
\* stop = the given stop, or 0 (negative step) / -1 when unset.
C1_SliceLoad ==
    (/\ LoadDone("Range")
     /\ PySliceCheck(src)
     /\ \A i \in 1..3 : UnsetOrInt(src.items[i]))
    => LET a   == src.items[1]
           b   == src.items[2]
           s   == src.items[3]
           neg == s.t = "int" /\ s.v < 0
       IN  /\ res = "true"
           /\ value.step = (IF s.t = "None" THEN 1 ELSE Abs(s.v))
           /\ value.start = (IF a.t # "None" THEN a.v ELSE IF neg THEN -1 ELSE 0)
           /\ value.stop = (IF b.t # "None" THEN b.v ELSE IF neg THEN 0 ELSE -1)

\* C10: for every slice step s that dip::sint can hold, the loaded Range
\* stores step = |s|, a non-negative value; slice(a,b,s) and slice(a,b,-s)
\* with a and b set load to the same Range; and cast emits a slice whose
\* step, a signed integer, is that same non-negative magnitude.
C10_StepMagnitude ==
    (/\ LoadDone("Range")
     /\ PySliceCheck(src)
     /\ src.items[3].t = "int"
     /\ FitsSint(src.items[3].v)
     /\ res = "true")
    => LET a == src.items[1]
           b == src.items[2]
           s == src.items[3].v
       IN  /\ value.step = Abs(s)
           /\ value.step >= 0
           /\ (a.t = "int" /\ b.t = "int")
                => \A r \in RangeLoad(prev, PySlice(a, b, PyInt(0 - s))) :
                      r.res = "true" /\ r.value = value
           /\ op = "cast"
                => out.items[3].v = Abs(s) /\ out.items[3].v >= 0

\* C7: the load of SampleCaster, RangeCaster and PixelCaster signals "not
\* convertible" by returning false and never by raising; so the only error
\* that leaves ImageOrPixel is its own conversion error, raised after the
\* Image and the Pixel step both returned no match.
C7_SoftFailureOnly ==
    /\ (kind \in {"Sample", "Range", "Pixel"} /\ op \in {"load", "cast"})
         => res \in {"true", "false"}
    /\ kind = "ImageOrPixel"
         => /\ res \in {"returned", "RunTimeError"}
            /\ res = "RunTimeError"
                 => /\ ~ImageCasterLoad(src)
                    /\ PixelLoad(FreshPixel, src).res = "false"

\* the tag the claims attach to a dynamic type
TagOfType(t) ==
    CASE t = "bool"    -> "BIN"
      [] t = "int"     -> "SINT64"
      [] t = "float"   -> "DFLOAT"
      [] t = "complex" -> "DCOMPLEX"
      [] OTHER         -> "none"

\* the dynamic type the claims attach to a tag
TypeOfTag(dt) ==
    CASE dt = "BIN"      -> "bool"
      [] dt = "SINT64"   -> "int"
      [] dt = "DFLOAT"   -> "float"
      [] dt = "DCOMPLEX" -> "complex"
      [] OTHER           -> "none"

\* C2: the tag is picked by the first matching check, boolean, integer,
\* float, complex: a boolean gives a binary Sample, an integer an integer
\* Sample, a float a float Sample, a complex a complex Sample, and an input
\* of any other dynamic type makes load return false.
C2_SampleDispatch ==
    LoadDone("Sample")
    => IF TagOfType(src.t) # "none"
       THEN res = "true" /\ value.dt = TagOfType(src.t)
       ELSE res = "false"

\* C3: cast maps a Sample to a dynamic value of the type that belongs to its
\* tag, and load of that dynamic value succeeds and gives a Sample with the
\* tag and the value of the original.
C3_SampleRoundTrip ==
    /\ (kind = "Sample" /\ op = "cast") => out.t = TypeOfTag(value.dt)
    /\ (kind = "Sample" /\ op = "load" /\ phase = "reloaded" /\ out # PyNull /\ src = out)
         => res = "true" /\ value = prev

C3_Witness ==
    /\ kind = "Sample"
    /\ op = "load"
    /\ phase = "reloaded"
    /\ out = PyBool(TRUE)
    /\ src = out
    /\ value = Sample("BIN", 1, 0)
    /\ value = prev

\* C4: on a non-empty list the tag comes from the dynamic type of element 0
\* alone (any other type of element 0: load returns false); the Pixel has the
\* length of the list and holds every element, in order, converted to that
\* tag; if an element cannot be converted to it the load fails.
C4_PixelFromList ==
    (LoadDone("Pixel") /\ PyListCheck(src) /\ Len(src.items) >= 1)
    => LET n   == Len(src.items)
           tag == TagOfType(src.items[1].t)
       IN  IF tag = "none" THEN res = "false"
           ELSE IF \A i \in 1..n : ConvertTo(tag, src.items[i]).ok
           THEN /\ res = "true"
                /\ value.dt = tag
                /\ Len(value.buffer) = n
                /\ \A i \in 1..n :
                     /\ value.buffer[i].re = ConvertTo(tag, src.items[i]).re
                     /\ value.buffer[i].im = ConvertTo(tag, src.items[i]).im
           ELSE res \notin {"true", "none"}

C4_Witness ==
    /\ LoadDone("Pixel")
    /\ src = PyList(<<PyFloat(1), PyInt(2), PyInt(1)>>)
    /\ res = "true"
    /\ value = Pixel("DFLOAT", <<[re |-> 1, im |-> 0], [re |-> 2, im |-> 0], [re |-> 1, im |-> 0]>>)

\* C5: a Pixel that load reports as loaded has at least one sample; the empty
\* list makes load return false; an input that is no list gives a Pixel only
\* through the Sample caster: one sample, with the tag and value of that Sample.
C5_PixelInvariant ==
    LoadDone("Pixel")
    => /\ res = "true" => Len(value.buffer) >= 1
       /\ src = PyList(<<>>) => res = "false"
       /\ (~PyListCheck(src) /\ res = "true")
            => LET s == SampleLoad(NoValue, src)
               IN  /\ s.res = "true"
                   /\ value = Pixel(s.value.dt, <<[re |-> s.value.re, im |-> s.value.im]>>)

C5_Witness ==
    /\ LoadDone("Pixel")
    /\ src = PyComplex(2, -1)
    /\ res = "true"
    /\ value = Pixel("DCOMPLEX", <<[re |-> 2, im |-> -1]>>)

\* C6: when the Image caster takes the input its Image is returned and the
\* Pixel caster is not consulted; otherwise the Pixel caster is tried and on
\* its success the Image of exactly that Pixel is returned; the conversion
\* error is raised exactly when both report no match.
C6_ResolveOrder ==
    kind = "ImageOrPixel"
    => LET pix == PixelLoad(FreshPixel, src)
       IN  /\ ImageCasterLoad(src)
                => /\ res = "returned"
                   /\ value = Image("caster", NoValue)
                   /\ tried = <<"Image">>
           /\ ~ImageCasterLoad(src)
                => /\ tried = <<"Image", "Pixel">>
                   /\ pix.res = "true"
                        => res = "returned" /\ value = Image("pixel", pix.value)
           /\ res = "RunTimeError" <=> (~ImageCasterLoad(src) /\ pix.res = "false")
           /\ src = PyInt(5)
                => value = Image("pixel", Pixel("SINT64", <<[re |-> 5, im |-> 0]>>))

\* an input both casters would take: the Image caster's answer is returned
C6_Witness ==
    /\ kind = "ImageOrPixel"
    /\ src = NpFloat(3)
    /\ PixelLoad(FreshPixel, src).res = "true"
    /\ res = "returned"
    /\ value = Image("caster", NoValue)
    /\ tried = <<"Image">>

\* C8: a sequence (or str) whose elements all convert gives the array of the
\* converted elements, in order; one element that does not convert makes load
\* fail; any other input loads exactly when it converts as one element, and
\* the array is then that element alone, whatever the caster held before.
C8_ArrayLoad ==
    LoadDone("Array")
    => IF IsSequence(src)
       THEN LET items == SeqItems(src)
                n     == Len(items)
            IN  IF \A i \in 1..n : ToSint(items[i]).ok
                THEN /\ res = "true"
                     /\ Len(value.elems) = n
                     /\ \A i \in 1..n : value.elems[i] = ToSint(items[i]).re
                ELSE res = "false"
       ELSE /\ res = "true" <=> ToSint(src).ok
            /\ res = "true" => value.elems = <<ToSint(src).re>>

C8_Witness ==
    /\ LoadDone("Array")
    /\ phase = "reloaded"
    /\ prev = Array(<<2, 1, 2>>)
    /\ src = PyInt(5)
    /\ res = "true"
    /\ value = Array(<<5>>)

\* C9 as stated: a load that does not succeed leaves the value the caster
\* held before the call, for every caster.
C9_AsStated ==
    (kind \in Kinds /\ op = "load" /\ res # "true") => value = prev

\* C9, amended: that holds for the DataType, Shape, Range and Sample casters,
\* and for the Pixel caster unless a list element raised cast_error, which
\* leaves the newly allocated Pixel of the committed tag and the list's
\* length; the array caster's failed scalar promotion leaves the array empty.
C9_FailedLoadFrame ==
    (kind \in Kinds /\ op = "load" /\ res # "true")
    => CASE kind \in {"DataType", "Shape", "Range", "Sample"} -> value = prev
         [] kind = "Pixel" ->
              IF PyListCheck(src) /\ res # "false"
              THEN /\ res = "cast_error"
                   /\ value.dt = TagOfType(src.items[1].t)
                   /\ Len(value.buffer) = Len(src.items)
              ELSE value = prev
         [] kind = "Array" -> IsSequence(src) \/ value = Array(<<>>)

C9_Witness ==
    /\ kind = "Pixel"
    /\ op = "load"
    /\ phase = "reloaded"
    /\ src = PyList(<<>>)
    /\ res = "false"
    /\ prev = Pixel("SINT64", <<[re |-> 1, im |-> 0], [re |-> 2, im |-> 0]>>)
    /\ value = prev

====
